---- MODULE Spec2Model ----
(***************************************************************************)
(* Aurwrite (src/aurwrite_app.py): a Streamlit script that saves an        *)
(* uploaded recording, transcribes it with Whisper, rewrites the           *)
(* transcript with GPT-2 under a style prompt and narrates the result      *)
(* through tts_to_bytes.  Streamlit re-executes the script from the top on *)
(* every interaction and runs each browser session in its own thread, so   *)
(* the model has Sessions script executions that interleave at the         *)
(* granularity of the file-system calls they make.                         *)
(*                                                                         *)
(* Texts are sequences of tokens.  "Rewrite:" and "Original:" are single   *)
(* tokens, "\n", " " and "\t" are whitespace, every other token is a       *)
(* non-blank character.                                                    *)
(***************************************************************************)
EXTENDS Integers, Sequences, FiniteSets, TLC

\* ------------------------------------------------------------------ bounds
MaxRuns == 2        \* script executions, all sessions together
MaxClock == 1       \* the wall clock takes the seconds 0..MaxClock
MaxNameLen == 3     \* longest uploaded file name (SpecName)
MaxPromptLen == 3   \* longest style template (SpecRewrite)
MaxTextLen == 2     \* longest transcript and generated continuation (SpecRewrite)

Sessions == {1, 2}

\* ------------------------------------------------------------------ text
IsSpace(c) == c \in {" ", "\n", "\t"}

RECURSIVE LStrip(_)
LStrip(s) == IF s = <<>> THEN s
             ELSE IF IsSpace(Head(s)) THEN LStrip(Tail(s)) ELSE s

RECURSIVE RStrip(_)
RStrip(s) == IF s = <<>> THEN s
             ELSE IF IsSpace(s[Len(s)]) THEN RStrip(SubSeq(s, 1, Len(s) - 1)) ELSE s

\* str.strip(): leading and trailing whitespace removed
Strip(s) == RStrip(LStrip(s))

\* str.isalnum() on one character of the name alphabet
IsAlnum(c) == c \in {"a", "b", "1"}

\* the characters line 183 keeps
KeepChar(c) == IsAlnum(c) \/ c \in {" ", ".", "_", "-"}

\* a plausible slip: trimming before filtering instead of after
safe_name_strip_first(name) == SelectSeq(Strip(name), KeepChar)

\* line 183: "".join([c for c in name if c.isalnum() or c in (...)]).strip()
safe_name(name) == Strip(SelectSeq(name, KeepChar))

\* all sequences over S of length at most n
SeqsUpTo(S, n) == UNION {[1..k -> S] : k \in 0..n}

Marker == <<"Rewrite:", "\n">>

\* str.find: the first index at which sep occurs in s, 0 when it does not
FindFirst(s, sep) ==
    LET hits == {i \in 1..(Len(s) - Len(sep) + 1) : SubSeq(s, i, i + Len(sep) - 1) = sep}
    IN  IF hits = {} THEN 0 ELSE CHOOSE i \in hits : \A j \in hits : i <= j

\* a plausible slip: [0] instead of [-1], the part before the separator
SplitHead(s, sep) ==
    LET i == FindFirst(s, sep)
    IN  IF i = 0 THEN s ELSE SubSeq(s, 1, i - 1)

\* s.split(sep, 1)[-1]: the part after the first sep, all of s when sep is absent
SplitTail(s, sep) ==
    LET i == FindFirst(s, sep)
    IN  IF i = 0 THEN s ELSE SubSeq(s, i + Len(sep), Len(s))

\* line 206: f"{prompt}\n\nOriginal:\n{transcript}\n\nRewrite:\n"
SeedPrompt(prompt, transcript) ==
    prompt \o <<"\n", "\n", "Original:", "\n">> \o transcript \o <<"\n", "\n">> \o Marker

\* line 216: out.split("Rewrite:\n", 1)[-1].strip()
StyledOf(out) == Strip(SplitTail(out, Marker))

\* ------------------------------------------------------------------ state
VARIABLES
    clock,        \* datetime.now(), in whole seconds
    uploads,      \* uploads/<ts>_<safe_name>: path -> [data, written]
    transcripts,  \* outputs/transcripts/<ts>_transcript.txt: ts -> [by, text, written]
    tmp_wav,      \* outputs/audio/tmp_tts.wav, the one working file of tts_to_bytes
    tmp_txt,      \* per session: its NamedTemporaryFile exists
    host_espeak,  \* shutil.which("espeak-ng") finds the engine on this host
    whisper_cache,   \* st.cache_resource entry of load_whisper (0: none)
    rewriter_cache,  \* st.cache_resource entry of load_rewriter (0: none)
    loads,        \* how often each model was actually loaded
    nruns,        \* script executions started so far
    pc,           \* per session: position of its script execution
    run,          \* per session: number of its current execution
    loc,          \* per session: the execution's variables
    nm,           \* SpecName: a file name, sanitized once and twice
    rw            \* SpecRewrite: a prompt, a continuation and the styled story

vars == <<clock, uploads, transcripts, tmp_wav, tmp_txt, host_espeak, whisper_cache, rewriter_cache,
          loads, nruns, pc, run, loc, nm, rw>>

shared == <<clock, uploads, transcripts, tmp_wav, tmp_txt, host_espeak, whisper_cache, rewriter_cache,
            loads>>
pure == <<nm, rw>>

NoFile == [exists |-> FALSE, by |-> 0, text |-> <<>>]

\* the WAV an engine renders for `text` in execution `r`
Wav(r, text) == [exists |-> TRUE, by |-> r, text |-> text]

InitLoc ==
    [ts |-> 0, name |-> <<>>, file_bytes |-> <<>>, prompt |-> <<>>, transcript |-> <<>>,
     styled |-> <<>>, data |-> NoFile, wav_bytes |-> NoFile, error |-> "",
     events |-> <<>>, tts |-> "none", produced |-> FALSE,
     whisper_model |-> 0, rewrite_pipe |-> 0]

IdleNm == [pc |-> "off", name |-> <<>>, once |-> <<>>, twice |-> <<>>]
IdleRw == [pc |-> "off", prompt |-> <<>>, transcript |-> <<>>, gen |-> <<>>,
           out |-> <<>>, styled |-> <<>>]

InitApp ==
    /\ clock = 0
    /\ uploads = <<>>
    /\ transcripts = <<>>
    /\ tmp_wav = NoFile
    /\ tmp_txt = [s \in Sessions |-> FALSE]
    /\ host_espeak \in BOOLEAN
    /\ whisper_cache = 0
    /\ rewriter_cache = 0
    /\ loads = [whisper |-> 0, rewriter |-> 0]
    /\ nruns = 0
    /\ pc = [s \in Sessions |-> "idle"]
    /\ run = [s \in Sessions |-> 0]
    /\ loc = [s \in Sessions |-> InitLoc]

Init == InitApp /\ nm = IdleNm /\ rw = IdleRw

\* ------------------------------------------------------------------ inputs
\* names a browser may send with an upload
UploadNames == {<<"a">>, <<"/", "a", " ">>}
\* contents of an upload
Audios == {<<1, 1>>, <<2>>}
\* result["text"] of whisper_model.transcribe, before .strip()
WhisperTexts == {<<>>, <<" ">>, <<" ", "w", "\n">>}
\* continuations GPT-2 may sample after the seed prompt
GenTexts == {<<"w">>, <<"\n", "w", " ">>}
\* contents of a styles/*.txt file
StyleFileTexts == {<<"p">>, <<"p", "\n">>}

\* lines 154-159
STYLE_FILES ==
    [n \in {"Fairy Tale", "News Article", "Stand-Up Comedy", "Horror"} |->
        CASE n = "Fairy Tale" -> "fairytale.txt"
          [] n = "News Article" -> "news.txt"
          [] n = "Stand-Up Comedy" -> "comedy.txt"
          [] n = "Horror" -> "horror.txt"]

\* line 179: st.selectbox returns one of list(STYLE_FILES.keys())
StyleChoices == DOMAIN STYLE_FILES

Put(f, k, v) == [q \in DOMAIN f \cup {k} |-> IF q = k THEN v ELSE f[q]]

Set(s, r) == loc' = [loc EXCEPT ![s] = r]

Has(seq, e) == \E i \in 1..Len(seq) : seq[i] = e

\* ------------------------------------------------------------------ script
\* An execution that ends loses its namespace; what stays is what it put on the
\* page (lines 191-234: transcript, styled text, narration, the error) and, for the
\* properties, the steps it took.
Shown(l) ==
    [l EXCEPT !.ts = 0, !.name = <<>>, !.file_bytes = <<>>, !.prompt = <<>>,
              !.data = NoFile]

Resting == {"idle", "end", "done", "failed"}

\* lines 29-32: a new execution of the script; st.stop() without ffmpeg
StartRun(s) ==
    /\ pc[s] \in Resting
    /\ nruns < MaxRuns
    /\ nruns' = nruns + 1
    /\ run' = [run EXCEPT ![s] = nruns + 1]
    /\ Set(s, InitLoc)
    /\ \E ffmpeg \in BOOLEAN :
          pc' = [pc EXCEPT ![s] = IF ffmpeg THEN "load_whisper" ELSE "end"]
    /\ UNCHANGED <<shared, pure>>

\* a plausible slip: the decorator left off, so nothing is ever found cached
CacheMiss(cache) == FALSE

\* st.cache_resource: the entry of an argument-less function, once stored, is a hit
CacheHit(cache) == cache # 0

\* lines 77-80, 88: whisper.load_model runs only on a cache miss
LoadWhisper(s) ==
    /\ pc[s] = "load_whisper"
    /\ IF CacheHit(whisper_cache)
          THEN /\ Set(s, [loc[s] EXCEPT !.whisper_model = whisper_cache])
               /\ UNCHANGED <<whisper_cache, loads>>
          ELSE /\ loads' = [loads EXCEPT !.whisper = @ + 1]
               /\ whisper_cache' = loads.whisper + 1
               /\ Set(s, [loc[s] EXCEPT !.whisper_model = loads.whisper + 1])
    /\ pc' = [pc EXCEPT ![s] = "load_rewriter"]
    /\ UNCHANGED <<clock, uploads, transcripts, tmp_wav, tmp_txt, host_espeak, rewriter_cache,
                   nruns, run, pure>>

\* lines 82-86, 89: pipeline("text-generation", ...) runs only on a cache miss
LoadRewriter(s) ==
    /\ pc[s] = "load_rewriter"
    /\ IF CacheHit(rewriter_cache)
          THEN /\ Set(s, [loc[s] EXCEPT !.rewrite_pipe = rewriter_cache])
               /\ UNCHANGED <<rewriter_cache, loads>>
          ELSE /\ loads' = [loads EXCEPT !.rewriter = @ + 1]
               /\ rewriter_cache' = loads.rewriter + 1
               /\ Set(s, [loc[s] EXCEPT !.rewrite_pipe = loads.rewriter + 1])
    /\ pc' = [pc EXCEPT ![s] = "view"]
    /\ UNCHANGED <<clock, uploads, transcripts, tmp_wav, tmp_txt, host_espeak, whisper_cache,
                   nruns, run, pure>>

\* lines 167, 178-181, 236-251: another view, or the Create view with nothing
\* uploaded: the execution ends without touching the pipeline
NoUpload(s) ==
    /\ pc[s] = "view"
    /\ pc' = [pc EXCEPT ![s] = "end"]
    /\ UNCHANGED <<shared, nruns, run, loc, pure>>

\* f.write on a handle just opened for writing: the data goes to offset 0 of
\* what the file holds by then, bytes beyond the data stay (lines 96, 200)
Overlay(old, data) == data \o SubSeq(old, Len(data) + 1, Len(old))

\* a file of uploads/ or outputs/transcripts/ just opened for writing: empty, and
\* `written` records whether a write of this path has ever been completed
Opened(f, k) ==
    [data |-> <<>>, written |-> k \in DOMAIN f /\ f[k].written]

\* lines 178-184: a file arrives with the execution, the clock is read and the
\* name sanitized; uploaded.read() yields the bytes.  (The style chosen at line 179
\* is not used before line 204 and is drawn there.)
Uploaded(s) ==
    /\ pc[s] = "view"
    /\ \E name \in UploadNames, bytes \in Audios :
          Set(s, [loc[s] EXCEPT !.ts = clock, !.name = safe_name(name),
                                !.file_bytes = bytes])
    /\ pc' = [pc EXCEPT ![s] = "open_upload"]
    /\ UNCHANGED <<shared, nruns, run, pure>>

\* lines 92-95: save_bytes makes the directory and open(path, "wb") creates
\* uploads/<ts>_<safe_name>, or empties it
OpenUpload(s) ==
    /\ pc[s] = "open_upload"
    /\ LET path == <<loc[s].ts, loc[s].name>>
       IN  uploads' = Put(uploads, path, Opened(uploads, path))
    /\ pc' = [pc EXCEPT ![s] = "write_upload"]
    /\ UNCHANGED <<clock, transcripts, tmp_wav, tmp_txt, host_espeak, whisper_cache, rewriter_cache,
                   loads, nruns, run, loc, pure>>

\* lines 96-97, 185: the bytes are written and save_bytes returns
WriteUpload(s) ==
    /\ pc[s] = "write_upload"
    /\ LET path == <<loc[s].ts, loc[s].name>>
       IN  uploads' = [uploads EXCEPT ![path] =
                          [data |-> Overlay(@.data, loc[s].file_bytes), written |-> TRUE]]
    /\ Set(s, [loc[s] EXCEPT !.file_bytes = <<>>])
    /\ pc' = [pc EXCEPT ![s] = "button"]
    /\ UNCHANGED <<clock, transcripts, tmp_wav, tmp_txt, host_espeak, whisper_cache, rewriter_cache,
                   loads, nruns, run, pure>>

\* line 187: the button was not the interaction that caused this execution
NotClicked(s) ==
    /\ pc[s] = "button"
    /\ Set(s, Shown(loc[s]))
    /\ pc' = [pc EXCEPT ![s] = "end"]
    /\ UNCHANGED <<shared, nruns, run, pure>>

\* line 187: "Create Story" was clicked
Click(s) ==
    /\ pc[s] = "button"
    /\ pc' = [pc EXCEPT ![s] = "transcribe"]
    /\ UNCHANGED <<shared, nruns, run, loc, pure>>

\* a plausible slip: the check of line 193 dropped
NeverEmpty(transcript) == FALSE

\* line 193: `not transcript`
IsEmpty(transcript) == transcript = <<>>

\* lines 188-195: Whisper runs; an empty transcript stops the execution
Transcribe(s) ==
    /\ pc[s] = "transcribe"
    /\ \E raw \in WhisperTexts :
          LET transcript == Strip(raw)
              l == [loc[s] EXCEPT !.transcript = transcript,
                                  !.events = Append(@, "transcribe")]
          IN  IF IsEmpty(transcript)
                 THEN /\ Set(s, Shown([l EXCEPT !.error = "empty transcript"]))
                      /\ pc' = [pc EXCEPT ![s] = "failed"]
                 ELSE /\ Set(s, l)
                      /\ pc' = [pc EXCEPT ![s] = "save_transcript"]
    /\ UNCHANGED <<shared, nruns, run, pure>>

\* line 189: transcribe raises (an undecodable file); the exception ends the execution
TranscribeRaises(s) ==
    /\ pc[s] = "transcribe"
    /\ Set(s, Shown([loc[s] EXCEPT !.events = Append(@, "transcribe"),
                                    !.error = "Exception"]))
    /\ pc' = [pc EXCEPT ![s] = "failed"]
    /\ UNCHANGED <<shared, nruns, run, pure>>

\* lines 198-199: open(transcript_file, "w") creates the file or empties it
OpenTranscript(s) ==
    /\ pc[s] = "save_transcript"
    /\ transcripts' = Put(transcripts, loc[s].ts,
                           [by |-> run[s], text |-> <<>>,
                            written |-> Opened(transcripts, loc[s].ts).written])
    /\ pc' = [pc EXCEPT ![s] = "write_transcript"]
    /\ UNCHANGED <<clock, uploads, tmp_wav, tmp_txt, host_espeak, whisper_cache, rewriter_cache,
                   loads, nruns, run, loc, pure>>

\* line 200: the transcript is written and the file closed
WriteTranscript(s) ==
    /\ pc[s] = "write_transcript"
    /\ transcripts' = [transcripts EXCEPT ![loc[s].ts] =
                          [by |-> run[s], text |-> Overlay(@.text, loc[s].transcript),
                           written |-> TRUE]]
    /\ Set(s, [loc[s] EXCEPT !.events = Append(@, "persist")])
    /\ pc' = [pc EXCEPT ![s] = "load_style"]
    /\ UNCHANGED <<clock, uploads, tmp_wav, tmp_txt, host_espeak, whisper_cache, rewriter_cache,
                   loads, nruns, run, pure>>

\* line 162: STYLE_FILES[style_name] raises KeyError for a name that is no key
InCatalog(style_name) == style_name \in DOMAIN STYLE_FILES

\* lines 161-164, 204: load_style_prompt(style) with the style of the selectbox;
\* the template is read and trimmed
LoadStyle(s) ==
    /\ pc[s] = "load_style"
    /\ \E style \in StyleChoices, text \in StyleFileTexts :
          /\ InCatalog(style)
          /\ Set(s, [loc[s] EXCEPT !.prompt = Strip(text),
                                   !.events = Append(@, "lookup")])
    /\ pc' = [pc EXCEPT ![s] = "rewrite"]
    /\ UNCHANGED <<shared, nruns, run, pure>>

\* line 162: the name is not a key; line 163: the file cannot be opened
LoadStyleRaises(s) ==
    /\ pc[s] = "load_style"
    /\ \E style \in StyleChoices, err \in {"KeyError", "FileNotFoundError"} :
          /\ err = "KeyError" <=> ~InCatalog(style)
          /\ Set(s, Shown([loc[s] EXCEPT !.error = err]))
    /\ pc' = [pc EXCEPT ![s] = "failed"]
    /\ UNCHANGED <<shared, nruns, run, pure>>

\* lines 206-217: GPT-2 continues the seed prompt; the story is what follows the marker
Rewrite(s) ==
    /\ pc[s] = "rewrite"
    /\ \E gen \in GenTexts :
          LET out == SeedPrompt(loc[s].prompt, loc[s].transcript) \o gen
          IN  Set(s, [loc[s] EXCEPT !.styled = StyledOf(out),
                                    !.events = Append(@, "rewrite")])
    /\ pc' = [pc EXCEPT ![s] = "tts"]
    /\ UNCHANGED <<shared, nruns, run, pure>>

\* lines 207-215: rewrite_pipe raises (a seed prompt too long for GPT-2's 1024
\* positions); the exception ends the execution with no styled text
RewriteRaises(s) ==
    /\ pc[s] = "rewrite"
    /\ Set(s, Shown([loc[s] EXCEPT !.events = Append(@, "rewrite"),
                                    !.error = "Exception"]))
    /\ pc' = [pc EXCEPT ![s] = "failed"]
    /\ UNCHANGED <<shared, nruns, run, pure>>

\* ------------------------------------------------------------------ tts_to_bytes
fs == <<clock, uploads, transcripts, host_espeak, whisper_cache, rewriter_cache, loads>>

\* lines 101-110, 230: espeak-ng is on the PATH; the text goes to a temporary file
TtsPrimary(s) ==
    /\ pc[s] = "tts"
    /\ host_espeak
    /\ tmp_txt' = [tmp_txt EXCEPT ![s] = TRUE]
    /\ Set(s, [loc[s] EXCEPT !.tts = "running", !.events = Append(@, "narrate")])
    /\ pc' = [pc EXCEPT ![s] = "espeak"]
    /\ UNCHANGED <<fs, tmp_wav, nruns, run, pure>>

\* lines 112-115: espeak-ng exits with 0, having written tmp_tts.wav or not (the
\* code does not look), or exits non-zero and subprocess.run(check=True) raises
\* CalledProcessError
Espeak(s) ==
    /\ pc[s] = "espeak"
    /\ \E wrote \in BOOLEAN, exit \in {0, 1} :
          /\ tmp_wav' = IF wrote THEN Wav(run[s], loc[s].styled) ELSE tmp_wav
          /\ IF exit = 0
                THEN /\ Set(s, [loc[s] EXCEPT !.produced = wrote])
                     /\ pc' = [pc EXCEPT ![s] = "read_primary"]
                ELSE /\ Set(s, [loc[s] EXCEPT !.produced = wrote,
                                              !.error = "CalledProcessError"])
                     /\ pc' = [pc EXCEPT ![s] = "finally"]
    /\ UNCHANGED <<fs, tmp_txt, nruns, run, pure>>

\* lines 116-118: open(tmp_wav, "rb") and read
ReadPrimary(s) ==
    /\ pc[s] = "read_primary"
    /\ IF tmp_wav.exists
          THEN Set(s, [loc[s] EXCEPT !.data = tmp_wav])
          ELSE Set(s, [loc[s] EXCEPT !.error = "FileNotFoundError"])
    /\ pc' = [pc EXCEPT ![s] = "finally"]
    /\ UNCHANGED <<shared, nruns, run, pure>>

\* os.remove: the file is gone afterwards; the error for a missing file is swallowed
\* (lines 122-123, 126-127, 144-145)
Remove(file) == NoFile

\* a plausible slip: `except Exception: pass` around the whole try block
Swallowed(error) == FALSE

\* lines 111-119: try/finally has no except clause, a pending exception goes on
Propagates(error) == error # ""

\* lines 119-127, then 231-234 or the propagating exception
FinallyPrimary(s) ==
    /\ pc[s] = "finally"
    /\ tmp_txt' = [tmp_txt EXCEPT ![s] = FALSE]
    /\ tmp_wav' = Remove(tmp_wav)
    /\ IF Propagates(loc[s].error)
          THEN /\ Set(s, Shown([loc[s] EXCEPT !.tts = "raised"]))
               /\ pc' = [pc EXCEPT ![s] = "failed"]
          ELSE /\ Set(s, Shown([loc[s] EXCEPT !.wav_bytes = loc[s].data, !.tts = "returned"]))
               /\ pc' = [pc EXCEPT ![s] = "done"]
    /\ UNCHANGED <<fs, nruns, run, pure>>

\* lines 129-133, 230: no espeak-ng; pyttsx3.init() and the rate, or init raises
TtsFallback(s) ==
    /\ pc[s] = "tts"
    /\ ~host_espeak
    /\ \E ok \in BOOLEAN :
          IF ok
             THEN /\ Set(s, [loc[s] EXCEPT !.tts = "running",
                                           !.events = Append(@, "narrate")])
                  /\ pc' = [pc EXCEPT ![s] = "pyttsx3"]
             ELSE /\ Set(s, Shown([loc[s] EXCEPT !.tts = "raised", !.error = "EngineError",
                                           !.events = Append(@, "narrate")]))
                  /\ pc' = [pc EXCEPT ![s] = "failed"]
    /\ UNCHANGED <<shared, nruns, run, pure>>

\* lines 134-135: save_to_file and runAndWait; the engine writes the file or not,
\* and returns or raises
Pyttsx3(s) ==
    /\ pc[s] = "pyttsx3"
    /\ \E wrote \in BOOLEAN, raised \in BOOLEAN :
          /\ tmp_wav' = IF wrote THEN Wav(run[s], loc[s].styled) ELSE tmp_wav
          /\ IF raised
                THEN /\ Set(s, Shown([loc[s] EXCEPT !.produced = wrote, !.tts = "raised",
                                              !.error = "EngineError"]))
                     /\ pc' = [pc EXCEPT ![s] = "failed"]
                ELSE /\ Set(s, [loc[s] EXCEPT !.produced = wrote])
                     /\ pc' = [pc EXCEPT ![s] = "exists"]
    /\ UNCHANGED <<fs, tmp_txt, nruns, run, pure>>

\* lines 137-138
CheckExists(s) ==
    /\ pc[s] = "exists"
    /\ IF tmp_wav.exists
          THEN /\ pc' = [pc EXCEPT ![s] = "read_fallback"]
               /\ UNCHANGED loc
          ELSE /\ Set(s, Shown([loc[s] EXCEPT !.tts = "raised", !.error = "RuntimeError"]))
               /\ pc' = [pc EXCEPT ![s] = "failed"]
    /\ UNCHANGED <<shared, nruns, run, pure>>

\* lines 140-141
ReadFallback(s) ==
    /\ pc[s] = "read_fallback"
    /\ IF tmp_wav.exists
          THEN /\ Set(s, [loc[s] EXCEPT !.data = tmp_wav])
               /\ pc' = [pc EXCEPT ![s] = "remove_fallback"]
          ELSE /\ Set(s, Shown([loc[s] EXCEPT !.tts = "raised", !.error = "FileNotFoundError"]))
               /\ pc' = [pc EXCEPT ![s] = "failed"]
    /\ UNCHANGED <<shared, nruns, run, pure>>

\* lines 142-146, then 231-234
RemoveFallback(s) ==
    /\ pc[s] = "remove_fallback"
    /\ tmp_wav' = Remove(tmp_wav)
    /\ Set(s, Shown([loc[s] EXCEPT !.wav_bytes = loc[s].data, !.tts = "returned"]))
    /\ pc' = [pc EXCEPT ![s] = "done"]
    /\ UNCHANGED <<fs, tmp_txt, nruns, run, pure>>

\* the wall clock moves on
Tick ==
    /\ clock < MaxClock
    /\ clock' = clock + 1
    /\ UNCHANGED <<uploads, transcripts, tmp_wav, tmp_txt, host_espeak, whisper_cache, rewriter_cache,
                   loads, nruns, pc, run, loc, pure>>


Next ==
    \/ Tick
    \/ \E s \in Sessions : StartRun(s)
    \/ \E s \in Sessions : LoadWhisper(s)
    \/ \E s \in Sessions : LoadRewriter(s)
    \/ \E s \in Sessions : NoUpload(s)
    \/ \E s \in Sessions : Uploaded(s)
    \/ \E s \in Sessions : OpenUpload(s)
    \/ \E s \in Sessions : WriteUpload(s)
    \/ \E s \in Sessions : NotClicked(s)
    \/ \E s \in Sessions : Click(s)
    \/ \E s \in Sessions : Transcribe(s)
    \/ \E s \in Sessions : TranscribeRaises(s)
    \/ \E s \in Sessions : OpenTranscript(s)
    \/ \E s \in Sessions : WriteTranscript(s)
    \/ \E s \in Sessions : LoadStyle(s)
    \/ \E s \in Sessions : LoadStyleRaises(s)
    \/ \E s \in Sessions : Rewrite(s)
    \/ \E s \in Sessions : RewriteRaises(s)
    \/ \E s \in Sessions : TtsPrimary(s)
    \/ \E s \in Sessions : Espeak(s)
    \/ \E s \in Sessions : ReadPrimary(s)
    \/ \E s \in Sessions : FinallyPrimary(s)
    \/ \E s \in Sessions : TtsFallback(s)
    \/ \E s \in Sessions : Pyttsx3(s)
    \/ \E s \in Sessions : CheckExists(s)
    \/ \E s \in Sessions : ReadFallback(s)
    \/ \E s \in Sessions : RemoveFallback(s)

Spec == Init /\ [][Next]_vars

\* ------------------------------------------------------------------ SpecName
\* characters of an uploaded name: alphanumeric, kept punctuation, a separator
\* the filter drops, and whitespace the filter drops
NameChars == {"a", " ", ".", "/", "\t"}

InitName ==
    /\ InitApp /\ ~host_espeak
    /\ nm \in {[pc |-> "name", name |-> n, once |-> <<>>, twice |-> <<>>] :
                 n \in SeqsUpTo(NameChars, MaxNameLen)}
    /\ rw = IdleRw

app == <<shared, nruns, pc, run, loc>>

\* line 183 applied to the uploaded name
SanitizeOnce ==
    /\ nm.pc = "name"
    /\ nm' = [nm EXCEPT !.pc = "once", !.once = safe_name(nm.name)]
    /\ UNCHANGED <<app, rw>>

\* line 183 applied to its own result
SanitizeTwice ==
    /\ nm.pc = "once"
    /\ nm' = [nm EXCEPT !.pc = "twice", !.twice = safe_name(nm.once)]
    /\ UNCHANGED <<app, rw>>

NextName == SanitizeOnce \/ SanitizeTwice

SpecName == InitName /\ [][NextName]_vars

\* ------------------------------------------------------------------ SpecRewrite
Tokens == {"w", "\n", "Rewrite:"}

\* texts str.strip() returns
Stripped(n) == {t \in SeqsUpTo(Tokens, n) : Strip(t) = t}

InitRewrite ==
    /\ InitApp /\ ~host_espeak
    /\ nm = IdleNm
    /\ rw \in {[pc |-> "compose", prompt |-> p, transcript |-> t, gen |-> g,
                out |-> <<>>, styled |-> <<>>] :
                 p \in Stripped(MaxPromptLen),
                 t \in Stripped(MaxTextLen) \ {<<>>},
                 g \in SeqsUpTo(Tokens, MaxTextLen)}

\* line 206
Compose ==
    /\ rw.pc = "compose"
    /\ rw' = [rw EXCEPT !.pc = "generate", !.out = SeedPrompt(rw.prompt, rw.transcript)]
    /\ UNCHANGED <<app, nm>>

\* lines 207-215: generated_text is the seed prompt followed by the continuation
Generate ==
    /\ rw.pc = "generate"
    /\ rw' = [rw EXCEPT !.pc = "split", !.out = rw.out \o rw.gen]
    /\ UNCHANGED <<app, nm>>

\* line 216
PostProcess ==
    /\ rw.pc = "split"
    /\ rw' = [rw EXCEPT !.pc = "done", !.styled = StyledOf(rw.out)]
    /\ UNCHANGED <<app, nm>>

NextRewrite == Compose \/ Generate \/ PostProcess

SpecRewrite == InitRewrite /\ [][NextRewrite]_vars

\* ------------------------------------------------------------------ claims
\* the narration call of session s has ended, by return or by exception
TtsEnded(s) == loc[s].tts \in {"returned", "raised"}

\* C1: once a call of tts_to_bytes has ended, by return or by exception, on the
\* espeak-ng path or on the pyttsx3 path, neither its temporary text file nor a
\* tmp_tts.wav that it wrote exists.
C1_TransientFilesGone ==
    \A s \in Sessions :
        TtsEnded(s) => /\ ~tmp_txt[s]
                       /\ ~(tmp_wav.exists /\ tmp_wav.by = run[s])

\* C2: an execution whose transcription came back empty after trimming is halted
\* as failed: it wrote no transcript file, looked up no style, ran no rewrite and
\* no narration, and holds neither a styled text nor narration bytes.
C2_EmptyTranscriptHalts ==
    \A s \in Sessions :
        (Has(loc[s].events, "transcribe") /\ loc[s].transcript = <<>>) =>
            /\ pc[s] = "failed"
            /\ loc[s].events = <<"transcribe">>
            /\ \A t \in DOMAIN transcripts : transcripts[t].by # run[s]
            /\ loc[s].prompt = <<>>
            /\ loc[s].styled = <<>>
            /\ loc[s].tts = "none"
            /\ ~loc[s].wav_bytes.exists

C2_Witness ==
    \E s \in Sessions :
        /\ loc[s].error = "empty transcript"
        /\ loc[s].events = <<"transcribe">>
        /\ DOMAIN transcripts # {}

\* C3: a call of tts_to_bytes during which no engine wrote an output file ends in
\* the RuntimeError of line 138: it returns no bytes and raises nothing else.  (An
\* exception of the pyttsx3 engine itself, whose kind the source does not fix, is
\* not held against the claim.)
C3_NoOutputIsRuntimeError ==
    \A s \in Sessions :
        (TtsEnded(s) /\ ~loc[s].produced) =>
            /\ loc[s].tts = "raised"
            /\ loc[s].error \in {"RuntimeError", "EngineError"}

\* the orchestrator's state at a position of the script (lines 181-234)
StateOf(p) ==
    CASE p \in {"idle", "load_whisper", "load_rewriter", "view", "open_upload",
                "write_upload", "button", "end"} -> "Idle"
      [] p \in {"transcribe", "save_transcript", "write_transcript"} -> "Transcribing"
      [] p \in {"load_style", "rewrite"} -> "Rewriting"
      [] p \in {"tts", "espeak", "read_primary", "finally", "pyttsx3", "exists",
                "read_fallback", "remove_fallback"} -> "Narrating"
      [] p = "done" -> "Done"
      [] p = "failed" -> "Failed"

Forward ==
    {<<"Idle", "Transcribing">>, <<"Transcribing", "Rewriting">>,
     <<"Rewriting", "Narrating">>, <<"Narrating", "Done">>}
    \cup {<<x, "Failed">> : x \in {"Idle", "Transcribing", "Rewriting", "Narrating"}}

\* C5: within one execution the state only moves Idle -> Transcribing -> Rewriting
\* -> Narrating -> Done, or from a state that is not terminal to Failed; nothing
\* leaves Done or Failed; and Done is entered only with a non-empty transcript,
\* after transcription, the write of the transcript, the style lookup, the rewrite
\* and the narration happened in this order and the narration returned audio.
C5_LinearPipeline ==
    [][\A s \in Sessions :
          run'[s] = run[s] =>
             /\ \/ StateOf(pc'[s]) = StateOf(pc[s])
                \/ <<StateOf(pc[s]), StateOf(pc'[s])>> \in Forward
             /\ StateOf(pc'[s]) = "Done" =>
                   /\ loc'[s].events =
                         <<"transcribe", "persist", "lookup", "rewrite", "narrate">>
                   /\ loc'[s].transcript # <<>>
                   /\ loc'[s].tts = "returned"
                   /\ loc'[s].wav_bytes.exists]_vars

C5_Witness ==
    \E s \in Sessions : pc[s] = "done" /\ loc[s].wav_bytes.exists

\* C6: the bytes a call of tts_to_bytes returns are the audio its own engine
\* invocation rendered for its own text.
C6_ReturnsOwnAudio ==
    \A s \in Sessions :
        loc[s].tts = "returned" => loc[s].wav_bytes = Wav(run[s], loc[s].styled)

\* C7: an upload file or a transcript file whose write has been completed keeps
\* its contents and is never deleted, whatever any execution does later.  (The
\* open and the first write that make a new file are not held against the claim.)
C7_PersistedFilesImmutable ==
    [][/\ \A f \in DOMAIN uploads :
              uploads[f].written =>
                  f \in DOMAIN uploads' /\ uploads'[f].data = uploads[f].data
       /\ \A t \in DOMAIN transcripts :
              transcripts[t].written =>
                  t \in DOMAIN transcripts' /\ transcripts'[t].text = transcripts[t].text]_vars

\* C8: each model is loaded at most once, and every execution that has loaded its
\* models holds the one cached instance of each.
C8_ModelsLoadedOnce ==
    /\ loads.whisper <= 1
    /\ loads.rewriter <= 1
    /\ \A s \in Sessions :
          /\ loc[s].whisper_model \in {0, whisper_cache}
          /\ loc[s].rewrite_pipe \in {0, rewriter_cache}
    /\ \A s, t \in Sessions :
          /\ (loc[s].whisper_model # 0 /\ loc[t].whisper_model # 0) =>
                 loc[s].whisper_model = loc[t].whisper_model
          /\ (loc[s].rewrite_pipe # 0 /\ loc[t].rewrite_pipe # 0) =>
                 loc[s].rewrite_pipe = loc[t].rewrite_pipe

C8_Witness ==
    \E s, t \in Sessions :
        /\ 0 < run[t] /\ run[t] < run[s]
        /\ loc[t].whisper_model # 0 /\ loc[t].rewrite_pipe # 0
        /\ loc[s].whisper_model # 0 /\ loc[s].rewrite_pipe # 0

\* the template, the "Original:" header and the transcript fill the positions
\* 1..BodyLen of the raw output
BodyLen == Len(rw.prompt) + 4 + Len(rw.transcript)

\* the position in the raw output of the first token of the styled story
StyledStart ==
    LET from == FindFirst(rw.out, Marker) + Len(Marker)
        rest == SubSeq(rw.out, from, Len(rw.out))
    IN  from + (Len(rest) - Len(LStrip(rest)))

\* C9: the raw output holds the marker, and the styled story holds nothing of what
\* precedes the prompt's marker: no token of the template, of the "Original:"
\* header or of the transcript.
C9_NoPromptInStory ==
    rw.pc = "done" =>
        /\ FindFirst(rw.out, Marker) # 0
        /\ rw.styled = <<>> \/ StyledStart > BodyLen

\* C10: sanitizing a sanitized name gives the same name.
C10_SanitizeIdempotent ==
    nm.pc = "twice" => nm.twice = nm.once

C10_Witness ==
    /\ nm.pc = "twice"
    /\ nm.once # nm.name
    /\ nm.once # <<>>
    /\ Len(SelectSeq(nm.name, KeepChar)) > Len(nm.once)

====
